---- MODULE Spec2Model ----
(***************************************************************************)
(* Model of app.py: the MP3 transcriber with chunking.  One run of the     *)
(* script is modelled from the secrets lookup down to the result display.  *)
(* Text values are TLA+ strings; an optional value (Python None or a str)  *)
(* is a sequence of length 0 (None) or 1 (the str).  Credential values are *)
(* sequences of characters so that strip() and startswith() are computed.  *)
(***************************************************************************)
EXTENDS Integers, Sequences, FiniteSets, TLC

VARIABLES secrets, pc, openai_api_key, api_key_found, error_message_for_user,
          client, uploaded_size, decoded, num_chunks, i, chunk_nbytes,
          transcriptions_list, chunk_progress, attempt, attempt_log,
          caller, ret, full_transcription, outcome,
          api_attempts, calls, submitted, handled

vars == <<secrets, pc, openai_api_key, api_key_found, error_message_for_user,
          client, uploaded_size, decoded, num_chunks, i, chunk_nbytes,
          transcriptions_list, chunk_progress, attempt, attempt_log,
          caller, ret, full_transcription, outcome,
          api_attempts, calls, submitted, handled>>

(* ------------------------------ constants ------------------------------ *)

OPENAI_API_FILE_LIMIT_MB == 25

OPENAI_API_FILE_LIMIT_BYTES == OPENAI_API_FILE_LIMIT_MB * 1024 * 1024

TARGET_CHUNK_SIZE_BYTES == (OPENAI_API_FILE_LIMIT_MB - 1) * 1024 * 1024

max_attempts == 3

(* ------------------------------- bounds -------------------------------- *)

MaxChunks == 3

(* --------------------------- optional values --------------------------- *)

None == <<>>

Some(s) == <<s>>

\* Python truthiness of an optional str: None and "" are falsy.
Truthy_notnone(v) == v /= None

Truthy(v) == v /= None /\ v[1] /= ""

(* ------------------------------ secrets -------------------------------- *)

\* A value stored in the secrets: missing, a non-string, or a string.
Missing == [type |-> "missing", chars |-> <<>>]

NotAString == [type |-> "int", chars |-> <<>>]

Str(cs) == [type |-> "str", chars |-> cs]

KeyValues ==
    { Missing, NotAString,
      Str(<<"s", "k", "-", "a">>),
      Str(<<" ", "s", "k", "-", "b", "\n">>),
      Str(<<"p", "k", "-", "a">>),
      Str(<<>>) }

\* st.secrets.get("openai"): absent, a scalar (no .get), or a mapping.
Sections ==
    { [kind |-> "absent", api_key |-> Missing],
      [kind |-> "scalar", api_key |-> Missing] }
    \cup { [kind |-> "mapping", api_key |-> v] : v \in KeyValues }

\* The flat OPENAI_API_KEY entry: absent or present with a value.
FlatValues == KeyValues

Whitespace == {" ", "\t", "\n", "\r"}

RECURSIVE LStrip(_)
LStrip(cs) ==
    IF cs /= <<>> /\ Head(cs) \in Whitespace THEN LStrip(Tail(cs)) ELSE cs

RECURSIVE RStrip(_)
RStrip(cs) ==
    IF cs /= <<>> /\ cs[Len(cs)] \in Whitespace
    THEN RStrip(SubSeq(cs, 1, Len(cs) - 1))
    ELSE cs

\* str.strip()
Strip(cs) == RStrip(LStrip(cs))

\* str.startswith("sk-")
StartsWithSk(cs) ==
    Len(cs) >= 3 /\ SubSeq(cs, 1, 3) = <<"s", "k", "-">>

\* openai_section is not None and hasattr(openai_section, "get")
HasGet_always(section) == section.kind /= "absent"

HasGet(section) == section.kind = "mapping"

(* ------------------------------ inputs --------------------------------- *)

FileSizes ==
    { 1, OPENAI_API_FILE_LIMIT_BYTES - 1, OPENAI_API_FILE_LIMIT_BYTES,
      OPENAI_API_FILE_LIMIT_BYTES + 1 }

ChunkSizes ==
    { TARGET_CHUNK_SIZE_BYTES, OPENAI_API_FILE_LIMIT_BYTES,
      OPENAI_API_FILE_LIMIT_BYTES + 1 }

\* Texts the API may return for a successful request.
ApiTexts == {"", "A", "B"}

\* One API attempt: an exception (None) or a returned text.
ApiOutcomes == {None} \cup { Some(t) : t \in ApiTexts }

(* --------------------------- pure helpers ------------------------------ *)

\* uploaded_file.size <= OPENAI_API_FILE_LIMIT_BYTES
WithinLimit_lt(size) == size < OPENAI_API_FILE_LIMIT_BYTES

WithinLimit(size) == size <= OPENAI_API_FILE_LIMIT_BYTES

\* chunk_io.getbuffer().nbytes > OPENAI_API_FILE_LIMIT_BYTES
TooLarge_mb(nbytes) == nbytes > OPENAI_API_FILE_LIMIT_BYTES + 1024 * 1024

TooLarge(nbytes) == nbytes > OPENAI_API_FILE_LIMIT_BYTES

\* attempt < max_attempts
MayRetry_le(a) == a <= max_attempts

MayRetry(a) == a < max_attempts

TooLargePlaceholder(k) ==
    "[ERROR: CHUNK " \o ToString(k + 1) \o " TOO LARGE TO PROCESS]"

FailedPlaceholder(k) ==
    "[ERROR: CHUNK " \o ToString(k + 1) \o " FAILED TRANSCRIPTION]"

\* filter(None, xs)
FilterNone(xs) == SelectSeq(xs, LAMBDA s : s /= "")

RECURSIVE JoinWith(_, _)
JoinWith(sep, xs) ==
    IF xs = <<>> THEN ""
    ELSE IF Len(xs) = 1 THEN xs[1]
    ELSE xs[1] \o sep \o JoinWith(sep, Tail(xs))

\* " ".join(filter(None, transcriptions_list))
JoinTranscriptions_nosep(xs) == JoinWith("", FilterNone(xs))

JoinTranscriptions(xs) == JoinWith(" ", FilterNone(xs))

(* ------------------------------- Init ---------------------------------- *)

Init ==
    /\ secrets \in [openai : Sections, has_flat : BOOLEAN, flat : FlatValues]
    /\ (~secrets.has_flat => secrets.flat = Missing)
    /\ (secrets.has_flat => secrets.flat /= Missing)
    /\ pc = "secrets"
    /\ openai_api_key = None
    /\ api_key_found = FALSE
    /\ error_message_for_user = "Initial check."
    /\ client = FALSE
    /\ uploaded_size = 0
    /\ decoded = FALSE
    /\ num_chunks = 0
    /\ i = 0
    /\ chunk_nbytes = 0
    /\ transcriptions_list = <<>>
    /\ chunk_progress = <<>>
    /\ attempt = 0
    /\ attempt_log = <<>>
    /\ caller = "none"
    /\ ret = None
    /\ full_transcription = ""
    /\ outcome = "running"
    /\ api_attempts = 0
    /\ calls = 0
    /\ submitted = <<>>
    /\ handled = <<>>

(* ------------------------ credential resolution ------------------------ *)

\* Lines 59-76: the structured [openai] entry.  Yields <<key, found, msg>>.
StructuredLookup(section) ==
    LET potential_key == section.api_key
        cleaned_key == Strip(potential_key.chars)
    IN  IF potential_key.type = "missing"
        THEN <<None, FALSE, "api_key missing in [openai]">>
        ELSE IF potential_key.type /= "str"
        THEN <<None, FALSE, "api_key in [openai] is not a string">>
        ELSE IF StartsWithSk(cleaned_key)
        THEN <<Some(cleaned_key), TRUE, "API key from [openai] section loaded successfully.">>
        ELSE <<None, FALSE, "api_key in [openai] does not start with sk-">>

\* Lines 76-91: the flat OPENAI_API_KEY entry, tried when there is no section.
FlatLookup(s) ==
    LET potential_flat_key == s.flat
        cleaned_flat_key == Strip(potential_flat_key.chars)
    IN  IF ~s.has_flat
        THEN <<None, FALSE, "[openai] section not found">>
        ELSE IF potential_flat_key.type = "missing"
        THEN <<None, FALSE, "Flat OPENAI_API_KEY has no value">>
        ELSE IF potential_flat_key.type /= "str"
        THEN <<None, FALSE, "Flat OPENAI_API_KEY is not a string">>
        ELSE IF StartsWithSk(cleaned_flat_key)
        THEN <<Some(cleaned_flat_key), TRUE, "API key loaded successfully from flat 'OPENAI_API_KEY'.">>
        ELSE <<None, FALSE, "Flat OPENAI_API_KEY does not start with sk-">>

\* Lines 55-91.
ResolveCredential ==
    /\ pc = "secrets"
    /\ LET r == IF HasGet(secrets.openai)
                THEN StructuredLookup(secrets.openai)
                ELSE FlatLookup(secrets)
       IN  /\ openai_api_key' = r[1]
           /\ api_key_found' = r[2]
           /\ error_message_for_user' = r[3]
    /\ pc' = "guard"
    /\ UNCHANGED <<secrets, client, uploaded_size, decoded, num_chunks, i,
                   chunk_nbytes, transcriptions_list, chunk_progress, attempt,
                   attempt_log, caller, ret, full_transcription, outcome,
                   api_attempts, calls, submitted, handled>>

\* Lines 93-99 without the st.stop().
CredentialGuard_nostop ==
    /\ pc = "guard"
    /\ pc' = "client"
    /\ outcome' = outcome
    /\ UNCHANGED <<secrets, openai_api_key, api_key_found,
                   error_message_for_user, client, uploaded_size, decoded,
                   num_chunks, i, chunk_nbytes, transcriptions_list,
                   chunk_progress, attempt, attempt_log, caller, ret,
                   full_transcription, api_attempts, calls, submitted, handled>>

\* Lines 93-99: st.stop() when no key was found.
CredentialGuard ==
    /\ pc = "guard"
    /\ IF ~api_key_found
       THEN pc' = "end" /\ outcome' = "stopped_no_key"
       ELSE pc' = "client" /\ outcome' = outcome
    /\ UNCHANGED <<secrets, openai_api_key, api_key_found,
                   error_message_for_user, client, uploaded_size, decoded,
                   num_chunks, i, chunk_nbytes, transcriptions_list,
                   chunk_progress, attempt, attempt_log, caller, ret,
                   full_transcription, api_attempts, calls, submitted, handled>>

\* Lines 101-105: OpenAI(api_key=...) may raise; then st.stop().
InitClient ==
    /\ pc = "client"
    /\ \E ok \in BOOLEAN :
        IF ok
        THEN client' = TRUE /\ pc' = "uploader" /\ outcome' = outcome
        ELSE client' = FALSE /\ pc' = "end" /\ outcome' = "stopped_client_init"
    /\ UNCHANGED <<secrets, openai_api_key, api_key_found,
                   error_message_for_user, uploaded_size, decoded,
                   num_chunks, i, chunk_nbytes, transcriptions_list,
                   chunk_progress, attempt, attempt_log, caller, ret,
                   full_transcription, api_attempts, calls, submitted, handled>>

(* ------------------------------ the page ------------------------------- *)

\* Lines 110-126 and 216-217: no file, or a file of some size.
FileUploader ==
    /\ pc = "uploader"
    /\ \/ /\ uploaded_size' = 0
          /\ pc' = "end"
          /\ outcome' = "idle"
       \/ /\ \E size \in FileSizes : uploaded_size' = size
          /\ pc' = "button"
          /\ outcome' = outcome
    /\ UNCHANGED <<secrets, openai_api_key, api_key_found,
                   error_message_for_user, client, decoded,
                   num_chunks, i, chunk_nbytes, transcriptions_list,
                   chunk_progress, attempt, attempt_log, caller, ret,
                   full_transcription, api_attempts, calls, submitted, handled>>

\* Lines 128-131: the button; a click starts the processing.
TranscribeButton ==
    /\ pc = "button"
    /\ \E clicked \in BOOLEAN :
        IF clicked
        THEN pc' = "size_check" /\ outcome' = outcome
        ELSE pc' = "end" /\ outcome' = "idle"
    /\ full_transcription' = ""
    /\ UNCHANGED <<secrets, openai_api_key, api_key_found,
                   error_message_for_user, client, uploaded_size, decoded,
                   num_chunks, i, chunk_nbytes, transcriptions_list,
                   chunk_progress, attempt, attempt_log, caller, ret,
                   api_attempts, calls, submitted, handled>>

(* ------------------------ transcribe_audio_chunk ----------------------- *)

\* The call transcribe_audio_chunk(client, buf) with attempt = 1.
StartCall(who, idx, nbytes) ==
    /\ caller' = who
    /\ attempt' = 1
    /\ attempt_log' = <<>>
    /\ calls' = calls + 1
    /\ submitted' = Append(submitted, [who |-> who, idx |-> idx, nbytes |-> nbytes])
    /\ pc' = "attempt"

\* Lines 17-40: one execution of the function body (one API request).  A
\* returned text is returned as is; an exception leads to the recursive call
\* while attempt < max_attempts and to None otherwise.
Attempt ==
    /\ pc = "attempt"
    /\ \E o \in ApiOutcomes :
        /\ attempt_log' = Append(attempt_log, o)
        /\ IF o /= None
           THEN /\ ret' = o
                /\ attempt' = attempt
                /\ pc' = IF caller = "direct" THEN "direct_ret" ELSE "chunk_ret"
           ELSE IF MayRetry(attempt)
           THEN /\ ret' = ret
                /\ attempt' = attempt + 1
                /\ pc' = "attempt"
           ELSE /\ ret' = None
                /\ attempt' = attempt
                /\ pc' = IF caller = "direct" THEN "direct_ret" ELSE "chunk_ret"
    /\ api_attempts' = api_attempts + 1
    /\ UNCHANGED <<secrets, openai_api_key, api_key_found,
                   error_message_for_user, client, uploaded_size, decoded,
                   num_chunks, i, chunk_nbytes, transcriptions_list,
                   chunk_progress, caller, full_transcription, outcome,
                   calls, submitted, handled>>

(* ----------------------------- direct path ----------------------------- *)

\* Lines 133-137 and 142-143: the size test; the direct call starts here.
SizeCheck ==
    /\ pc = "size_check"
    /\ IF WithinLimit(uploaded_size)
       THEN /\ StartCall("direct", 0, uploaded_size)
            /\ ret' = None
       ELSE /\ pc' = "load_audio"
            /\ UNCHANGED <<caller, attempt, attempt_log, calls, submitted, ret>>
    /\ UNCHANGED <<secrets, openai_api_key, api_key_found,
                   error_message_for_user, client, uploaded_size, decoded,
                   num_chunks, i, chunk_nbytes, transcriptions_list,
                   chunk_progress, full_transcription, outcome,
                   api_attempts, handled>>

\* Lines 138-141.
DirectReturn ==
    /\ pc = "direct_ret"
    /\ full_transcription' = IF Truthy(ret) THEN ret[1] ELSE full_transcription
    /\ pc' = "result"
    /\ UNCHANGED <<secrets, openai_api_key, api_key_found,
                   error_message_for_user, client, uploaded_size, decoded,
                   num_chunks, i, chunk_nbytes, transcriptions_list,
                   chunk_progress, attempt, attempt_log, caller, ret, outcome,
                   api_attempts, calls, submitted, handled>>

(* ----------------------------- chunked path ---------------------------- *)

\* Lines 145-175: decode (st.stop() on failure), make_chunks, empty list,
\* progress bar at 0.
LoadAudio ==
    /\ pc = "load_audio"
    /\ \/ /\ decoded' = FALSE
          /\ pc' = "end"
          /\ outcome' = "stopped_decode"
          /\ UNCHANGED <<num_chunks, transcriptions_list, chunk_progress, i>>
       \/ /\ decoded' = TRUE
          /\ \E n \in 1..MaxChunks : num_chunks' = n
          /\ transcriptions_list' = <<>>
          /\ chunk_progress' = Some(0)
          /\ i' = 0
          /\ pc' = "loop"
          /\ outcome' = outcome
    /\ UNCHANGED <<secrets, openai_api_key, api_key_found,
                   error_message_for_user, client, uploaded_size,
                   chunk_nbytes, attempt, attempt_log, caller, ret,
                   full_transcription, api_attempts, calls, submitted, handled>>

\* The for statement moving on from chunk i.
AfterChunk == IF i + 1 < num_chunks THEN "loop" ELSE "join"

\* Lines 177-192: export chunk i; an oversized chunk gets its placeholder and
\* the loop continues (skipping line 200); otherwise the chunk is submitted.
ExportChunk ==
    /\ pc = "loop"
    /\ \E nbytes \in ChunkSizes :
        /\ chunk_nbytes' = nbytes
        /\ IF TooLarge(nbytes)
           THEN /\ transcriptions_list' =
                       Append(transcriptions_list, TooLargePlaceholder(i))
                /\ handled' = Append(handled,
                       [idx |-> i, kind |-> "too_large", text |-> "", nbytes |-> nbytes])
                /\ i' = i + 1
                /\ pc' = AfterChunk
                /\ UNCHANGED <<caller, attempt, attempt_log, calls, submitted, ret>>
           ELSE /\ StartCall("chunk", i, nbytes)
                /\ ret' = None
                /\ UNCHANGED <<transcriptions_list, handled, i>>
    /\ UNCHANGED <<secrets, openai_api_key, api_key_found,
                   error_message_for_user, client, uploaded_size, decoded,
                   num_chunks, chunk_progress, full_transcription, outcome,
                   api_attempts>>

\* Lines 193-200 with a break after a failed chunk.
ChunkReturn_break ==
    /\ pc = "chunk_ret"
    /\ IF Truthy(ret)
       THEN /\ transcriptions_list' = Append(transcriptions_list, ret[1])
            /\ handled' = Append(handled,
                   [idx |-> i, kind |-> "text", text |-> ret[1], nbytes |-> chunk_nbytes])
            /\ pc' = AfterChunk
       ELSE /\ transcriptions_list' =
                   Append(transcriptions_list, FailedPlaceholder(i))
            /\ handled' = Append(handled,
                   [idx |-> i, kind |-> "failed", text |-> "", nbytes |-> chunk_nbytes])
            /\ pc' = "join"
    /\ chunk_progress' = Some(i + 1)
    /\ i' = i + 1
    /\ UNCHANGED <<secrets, openai_api_key, api_key_found,
                   error_message_for_user, client, uploaded_size, decoded,
                   num_chunks, chunk_nbytes, attempt, attempt_log, caller, ret,
                   full_transcription, outcome, api_attempts, calls, submitted>>

\* Lines 193-200: record the text or the failure placeholder, then progress.
ChunkReturn ==
    /\ pc = "chunk_ret"
    /\ IF Truthy(ret)
       THEN /\ transcriptions_list' = Append(transcriptions_list, ret[1])
            /\ handled' = Append(handled,
                   [idx |-> i, kind |-> "text", text |-> ret[1], nbytes |-> chunk_nbytes])
       ELSE /\ transcriptions_list' =
                   Append(transcriptions_list, FailedPlaceholder(i))
            /\ handled' = Append(handled,
                   [idx |-> i, kind |-> "failed", text |-> "", nbytes |-> chunk_nbytes])
    /\ chunk_progress' = Some(i + 1)
    /\ i' = i + 1
    /\ pc' = AfterChunk
    /\ UNCHANGED <<secrets, openai_api_key, api_key_found,
                   error_message_for_user, client, uploaded_size, decoded,
                   num_chunks, chunk_nbytes, attempt, attempt_log, caller, ret,
                   full_transcription, outcome, api_attempts, calls, submitted>>

\* Lines 202-203.
Join ==
    /\ pc = "join"
    /\ full_transcription' = JoinTranscriptions(transcriptions_list)
    /\ chunk_progress' = None
    /\ pc' = "result"
    /\ UNCHANGED <<secrets, openai_api_key, api_key_found,
                   error_message_for_user, client, uploaded_size, decoded,
                   num_chunks, i, chunk_nbytes, transcriptions_list, attempt,
                   attempt_log, caller, ret, outcome, api_attempts, calls,
                   submitted, handled>>

\* Lines 205-215: the transcript and the download, or the error.
ShowResult ==
    /\ pc = "result"
    /\ outcome' = IF full_transcription /= "" THEN "shown" ELSE "empty_error"
    /\ pc' = "end"
    /\ UNCHANGED <<secrets, openai_api_key, api_key_found,
                   error_message_for_user, client, uploaded_size, decoded,
                   num_chunks, i, chunk_nbytes, transcriptions_list,
                   chunk_progress, attempt, attempt_log, caller, ret,
                   full_transcription, api_attempts, calls, submitted, handled>>

Next ==
    \/ ResolveCredential
    \/ CredentialGuard
    \/ InitClient
    \/ FileUploader
    \/ TranscribeButton
    \/ SizeCheck
    \/ Attempt
    \/ DirectReturn
    \/ LoadAudio
    \/ ExportChunk
    \/ ChunkReturn
    \/ Join
    \/ ShowResult

Spec == Init /\ [][Next]_vars

TypeOK ==
    /\ pc \in {"secrets", "guard", "client", "uploader", "button", "size_check",
               "attempt", "direct_ret", "load_audio", "loop", "chunk_ret",
               "join", "result", "end"}
    /\ i \in 0..num_chunks
    /\ attempt \in 0..max_attempts
    /\ Len(attempt_log) <= max_attempts

(* ====================== properties of the program ====================== *)

\* The run is on the chunked path and the loop is over.
ChunkedDone == decoded /\ pc \in {"result", "end"}

\* The run went past the size test of line 133.
PastSizeCheck ==
    pc \in {"attempt", "direct_ret", "load_audio", "loop", "chunk_ret", "join", "result"}
    \/ (pc = "end" /\ outcome \in {"shown", "empty_error", "stopped_decode"})

\* What chunk number k (1-based) contributes to the transcriptions list.
EntryOf(k) ==
    IF handled[k].kind = "text" THEN handled[k].text
    ELSE IF handled[k].kind = "failed"
    THEN "[ERROR: CHUNK " \o ToString(k) \o " FAILED TRANSCRIPTION]"
    ELSE "[ERROR: CHUNK " \o ToString(k) \o " TOO LARGE TO PROCESS]"

RECURSIVE SpaceJoinedEntries(_)
SpaceJoinedEntries(k) ==
    IF k = 0 THEN ""
    ELSE IF k = 1 THEN EntryOf(1)
    ELSE SpaceJoinedEntries(k - 1) \o " " \o EntryOf(k)

RECURSIVE SpaceJoinedTexts(_)
SpaceJoinedTexts(hs) ==
    IF hs = <<>> THEN ""
    ELSE IF Len(hs) = 1 THEN hs[1].text
    ELSE hs[1].text \o " " \o SpaceJoinedTexts(Tail(hs))

SuccessfulChunks == SelectSeq(handled, LAMBDA h : h.kind = "text")

C2_NoSuccessWithoutText ==
    outcome = "shown" =>
        \/ (~decoded /\ ret /= None /\ ret[1] /= "")
        \/ (decoded /\ \E k \in 1..Len(handled) : handled[k].kind = "text")

C4_AttemptsUntilFirstSuccess ==
    LET n == Len(attempt_log) IN
    /\ n <= 3
    /\ (pc = "attempt" => n = attempt - 1 /\ \A j \in 1..n : attempt_log[j] = None)
    /\ (pc \in {"direct_ret", "chunk_ret"} =>
          /\ n >= 1
          /\ \A j \in 1..(n - 1) : attempt_log[j] = None
          /\ IF attempt_log[n] /= None
             THEN ret = attempt_log[n]
             ELSE n = 3 /\ ret = None)

C4_Witness ==
    /\ pc = "chunk_ret"
    /\ attempt_log = <<None, None, Some("A")>>
    /\ ret = Some("A")

\* C5: on the chunked path every chunk is handled once, in ascending index
\* order, whatever fails: the list has one entry per handled chunk, entry k
\* recording the outcome of chunk k, and N entries when the join is reached.
C5_EveryChunkRecorded ==
    decoded =>
        /\ Len(transcriptions_list) = i
        /\ Len(handled) = i
        /\ \A k \in 1..i : handled[k].idx = k - 1 /\ transcriptions_list[k] = EntryOf(k)
        /\ (pc \in {"join", "result", "end"} => i = num_chunks)

C5_Witness ==
    /\ pc = "join"
    /\ num_chunks = 3
    /\ Len(transcriptions_list) = 3
    /\ handled[1].kind = "failed"
    /\ handled[2].kind = "too_large"
    /\ handled[3].kind = "text"

\* C6: no chunk buffer above 25 MiB is submitted: an oversized chunk gets no
\* call (hence no API attempt) and the too-large placeholder at its position;
\* a chunk within the limit is submitted.
C6_OversizedNeverSubmitted ==
    /\ \A s \in 1..Len(submitted) :
          submitted[s].who = "chunk" => submitted[s].nbytes <= 25 * 1024 * 1024
    /\ (pc = "attempt" /\ caller = "chunk" => chunk_nbytes <= 25 * 1024 * 1024)
    /\ \A k \in 1..Len(handled) :
          IF handled[k].nbytes > 25 * 1024 * 1024
          THEN /\ ~ \E s \in 1..Len(submitted) :
                      submitted[s].who = "chunk" /\ submitted[s].idx = k - 1
               /\ transcriptions_list[k] =
                      "[ERROR: CHUNK " \o ToString(k) \o " TOO LARGE TO PROCESS]"
          ELSE \E s \in 1..Len(submitted) :
                  submitted[s] = [who |-> "chunk", idx |-> k - 1, nbytes |-> handled[k].nbytes]

C6_Witness ==
    /\ Len(handled) = 2
    /\ handled[1].nbytes = 25 * 1024 * 1024 + 1
    /\ handled[2].nbytes = 25 * 1024 * 1024
    /\ handled[2].kind = "text"
    /\ Len(submitted) = 1

\* C7: an API attempt happens only with a valid credential and an initialised
\* client, and on the chunked path only after decoding; when the credential,
\* the client or the decoding fails the run stops without any API attempt.
C7_FatalErrorsPrecedeNetwork ==
    /\ (api_attempts > 0 \/ pc = "attempt" =>
          /\ api_key_found /\ openai_api_key /= None /\ client
          /\ (caller = "chunk" => decoded))
    /\ (pc \notin {"secrets", "guard"} /\ ~api_key_found => outcome = "stopped_no_key")
    /\ (pc \notin {"secrets", "guard", "client"} /\ ~client => outcome \in {"stopped_no_key", "stopped_client_init"})
    /\ (outcome \in {"stopped_no_key", "stopped_client_init", "stopped_decode"} =>
          pc = "end" /\ api_attempts = 0 /\ calls = 0)

C7_Witness ==
    /\ api_attempts > 0
    /\ caller = "chunk"
    /\ decoded /\ client /\ api_key_found

ValidKey(v) ==
    /\ v.type = "str"
    /\ Len(Strip(v.chars)) >= 3
    /\ Strip(v.chars)[1] = "s" /\ Strip(v.chars)[2] = "k" /\ Strip(v.chars)[3] = "-"

StructuredValid == secrets.openai.kind = "mapping" /\ ValidKey(secrets.openai.api_key)

FlatValid == secrets.has_flat /\ ValidKey(secrets.flat)

\* C8 (as stated): whenever the structured entry yields no valid credential
\* and the flat entry holds one, resolution succeeds with the flat value; a
\* valid structured entry is the one used.
C8_FallbackWheneverStructuredInvalid ==
    pc /= "secrets" =>
        /\ (StructuredValid =>
              api_key_found /\ openai_api_key = Some(Strip(secrets.openai.api_key.chars)))
        /\ (~StructuredValid /\ FlatValid =>
              api_key_found /\ openai_api_key = Some(Strip(secrets.flat.chars)))

\* C8 (amended): the flat entry is the fallback only when the openai section
\* is absent or not a mapping; then a valid flat entry is used (stripped).  A
\* section that is a mapping decides alone: its valid api_key is used, and a
\* missing, non-string or unprefixed api_key makes resolution fail.
C8_FallbackOnlyWithoutSection ==
    pc /= "secrets" =>
        IF secrets.openai.kind = "mapping"
        THEN IF ValidKey(secrets.openai.api_key)
             THEN api_key_found /\ openai_api_key = Some(Strip(secrets.openai.api_key.chars))
             ELSE ~api_key_found /\ openai_api_key = None
        ELSE IF FlatValid
             THEN api_key_found /\ openai_api_key = Some(Strip(secrets.flat.chars))
             ELSE ~api_key_found /\ openai_api_key = None

C8_Witness ==
    /\ pc = "guard"
    /\ secrets.openai.kind = "scalar"
    /\ secrets.flat = Str(<<" ", "s", "k", "-", "b", "\n">>)
    /\ api_key_found
    /\ openai_api_key = Some(<<"s", "k", "-", "b">>)

\* C9: after chunk i is recorded and before the next chunk starts, progress
\* (i+1)/N is reported, whatever the chunk's outcome; N/N at the join.
C9_ProgressAfterEachChunk ==
    decoded /\ pc \in {"loop", "join"} => chunk_progress = Some(i)

\* C10: every entry of the list is a non-empty string, so filter(None, ...)
\* removes nothing and N entries are joined; an empty text returned by the
\* API is recorded as the failed-transcription placeholder.
C10_EntriesNonEmpty ==
    /\ \A k \in 1..Len(transcriptions_list) : transcriptions_list[k] /= ""
    /\ Len(SelectSeq(transcriptions_list, LAMBDA e : e /= "")) = Len(transcriptions_list)
    /\ (pc = "join" => Len(transcriptions_list) = num_chunks)
    /\ (/\ pc \in {"loop", "join"} /\ i >= 1
        /\ Len(handled) = i /\ handled[i].kind /= "too_large"
        /\ ret = Some("")
        => /\ handled[i].kind = "failed"
           /\ transcriptions_list[i] =
                  "[ERROR: CHUNK " \o ToString(i) \o " FAILED TRANSCRIPTION]")

C10_Witness ==
    /\ pc = "join"
    /\ ret = Some("")
    /\ attempt_log = <<Some("")>>
    /\ Len(handled) = num_chunks
    /\ handled[num_chunks].kind = "failed"

====
